---- MODULE Spec2Model ----
(***************************************************************************)
(* Clickstream tracking of learnhub: the event normalizer (trackEvent) and  *)
(* the record it builds, the session identity provider                     *)
(* (generateSessionId), the client IP resolver (getClientIP), the          *)
(* interaction observer (useClickstream: page views, unload and error      *)
(* capture), the dashboard's enroll handler (handleEnrollClick) and the    *)
(* quiz's submit handler (handleSubmit).                                   *)
(***************************************************************************)
EXTENDS Integers, Sequences, FiniteSets, TLC

\* ---------------------------------------------------------------- bounds
MaxCalls == 2        \* trackEvent calls issued in one page load
MaxClears == 1       \* times the browser empties the session storage slot
MaxNavs == 3         \* path changes one observer instance lives through

\* ------------------------------------------------------------ vocabulary
NULL == "null"
UNKNOWN == "unknown"                     \* sentinel of getClientIP
Undefined == [given |-> FALSE, component |-> "null", event_name |-> "null"]   \* trackEvent() without a descriptor
NoUserError == "No authenticated user"
services_Reordered == <<"ipapi", "ipify", "httpbin">>
services == <<"ipify", "ipapi", "httpbin">>
IPs == {"203.0.113.7"}
Users == {"u1"}
StoredId == "session_0"                  \* an identifier left by an earlier page load of the tab
CallIds == 1..MaxCalls
Paths == {"/course/1", "/course/2", "/course/3"}   \* routes one page component serves

\* descriptors handed to trackEvent: none at all, and one with every field missing
Descriptors ==
  { Undefined, [given |-> TRUE, component |-> NULL, event_name |-> NULL] }

\* how a call ends: the promise is fulfilled with {data, error} or rejected
Pending == [state |-> "pending", data |-> NULL, error |-> NULL]
Fulfilled(data, error) == [state |-> "fulfilled", data |-> data, error |-> error]
Rejected(error) == [state |-> "rejected", data |-> NULL, error |-> error]

\* what a lookup service can answer in response.json()
Bodies ==
  { [json |-> FALSE, ip |-> NULL, origin |-> NULL] }
  \cup { [json |-> TRUE, ip |-> x, origin |-> NULL] : x \in IPs \cup {NULL} }
  \cup { [json |-> TRUE, ip |-> NULL, origin |-> x] : x \in IPs }

VARIABLES
  ANALYTICS_ENABLED,   \* the build-time flag
  slot,                \* sessionStorage['learnhub_session_id']
  cachedIP,            \* module variable cachedIP
  clickstream,         \* rows of the clickstream table, keyed by the call that wrote them
  calls,               \* the trackEvent invocations and where each one stands, with
                       \* what each has done so far
  requests,            \* network and storage activity observed so far
  epoch,               \* number of times the slot has been emptied
  resolved             \* a resolution pass has finished in the current session

trackVars == <<slot, cachedIP, clickstream, calls, requests, epoch, resolved>>

\* one instance of the useClickstream hook and the page it lives in
VARIABLES
  pathname,               \* window.location.pathname
  mounted,                \* the component using the hook is mounted
  lastPage,               \* ref lastPage
  hasTrackedCurrentPage,  \* ref hasTrackedCurrentPage
  deps,                   \* the dependency [window.location.pathname] of the last effect run
  emitted,                \* the tracking calls the observer has made, in order
  rendered,               \* the path last rendered and the page views emitted for it
  lastRender,             \* what the last render did
  pathChanges             \* path changes since the instance was mounted

obsVars == <<pathname, mounted, lastPage, hasTrackedCurrentPage, deps, emitted, rendered,
             lastRender, pathChanges>>

\* the pages that take tracking functions from the hook
VARIABLES
  page,          \* the component that is mounted
  api,           \* the names in the object useClickstream returned to it
  authUser,      \* useAuth().user
  lastUse,       \* the last use of a tracking function by a handler of the page
  enroll,        \* the last run of handleEnrollClick
  enrollments,   \* courses for which db.enrollInCourse has been issued
  quiz           \* the state of QuizComponent and the last run of its handleSubmit

pageVars == <<page, api, authUser, lastUse, enroll, enrollments, quiz>>

\* the hook instances of one loaded page and its window events
VARIABLES
  clock,         \* Date.now(), in milliseconds since the document was loaded
  hooks,         \* per component using the hook: its refs and the locals of its effects
  sendBeacon,    \* navigator.sendBeacon exists
  lifetime,      \* what has happened since the document was loaded
  lastTrigger    \* the last window event dispatched and the tracking calls it caused

hookVars == <<clock, hooks, sendBeacon, lifetime, lastTrigger>>

\* one construction of the record trackEvent inserts
VARIABLES
  now,           \* new Date().getTime()
  tzOffset,      \* now.getTimezoneOffset(), in minutes
  referrer,      \* document.referrer
  callerData,    \* eventData.additional_data
  built          \* the time and additional_data of the record, once built

recordVars == <<now, tzOffset, referrer, callerData, built>>

\* one call of a convenience emitter, from its descriptor to the row it leaves
VARIABLES
  emission       \* the emitter called, the description it rendered and the row stored

\* the document itself
VARIABLES
  alive          \* the page has not been torn down

\* one query of the analytics reader
VARIABLES
  summary        \* the last getEventSummary call and what the store returned for it

\* the auth provider and the route guard under it
VARIABLES
  guard          \* the state of AuthProvider, its pending promises, the location and
                 \* what ProtectedRoute returned at the last render

moreVars == <<emission, alive, summary, guard>>

extraVars == <<hookVars, recordVars, moreVars>>

vars == <<ANALYTICS_ENABLED, trackVars, obsVars, pageVars, extraVars>>

IdleCall ==
  [ pc |-> "idle", eventData |-> Undefined, user |-> NULL, sessionId |-> NULL,
    clientIP |-> NULL, svc |-> 0, result |-> Pending,
    authSeen |-> "none",   \* what getUser answered: none yet, throws, nouser, user
    fetches |-> 0,         \* lookup requests this call has issued
    inserts |-> 0,         \* insert requests this call has issued
    pass |-> -1,           \* session epoch in which this call started a resolution pass
    genEpoch |-> -1,       \* session epoch in which this call obtained its session id
    after |-> {},          \* the calls that had completed when this one started
    solo |-> TRUE,         \* no other call was in flight while this one ran
    lateStart |-> FALSE,   \* a resolution had finished in its session when it asked for the IP
    contacted |-> <<>>,    \* the lookup services this call has sent a request to, in order
    outcomes |-> <<>>,     \* what each of them gave: "miss", or the IP it answered
    wrote |-> NULL ]       \* what this call has stored in cachedIP

InFlight == { c \in CallIds : calls[c].pc \notin {"idle", "done"} }
Done == { c \in CallIds : calls[c].pc = "done" }

\* ------------------------------------------------- pure parts of the code

\* generateSessionId without the early return: a new identifier on every call
generateSessionId_AlwaysNew(existing, cached, fresh) ==
  [id |-> fresh, slot |-> fresh, cachedIP |-> NULL, created |-> TRUE]

\* generateSessionId clearing the cached IP on every call, new session or not
generateSessionId_ClearsAlways(existing, cached, fresh) ==
  IF existing # NULL
    THEN [id |-> existing, slot |-> existing, cachedIP |-> NULL, created |-> FALSE]
    ELSE [id |-> fresh, slot |-> fresh, cachedIP |-> NULL, created |-> TRUE]

\* generateSessionId: reuse the stored identifier, or store a fresh one and
\* clear the cached IP
generateSessionId(existing, cached, fresh) ==
  IF existing # NULL
    THEN [id |-> existing, slot |-> existing, cachedIP |-> cached, created |-> FALSE]
    ELSE [id |-> fresh, slot |-> fresh, cachedIP |-> NULL, created |-> TRUE]

\* getClientIP without its first line: the cache is never consulted
CacheMiss_Always(cached) == TRUE

\* getClientIP, first line: the cache answers unless it is null
CacheMiss(cached) == cached = NULL

\* trackEvent without the guard on the resolved user
NoUser_Never(user) == FALSE

\* trackEvent: the guard on the resolved user
NoUser(user) == user = NULL

\* getClientIP: the IP-bearing field of a parsed answer, ip before origin
ExtractIP(data) ==
  IF data.ip # NULL THEN data.ip
  ELSE IF data.origin # NULL THEN data.origin
  ELSE NULL

Or(a, b) == IF a # NULL THEN a ELSE b      \* JavaScript a || b on strings

\* the record with the resolver's answer written as it came
clickstreamEvent_RawIP(eventData, user, sessionId, clientIP) ==
  [ user_id |-> user,
    component |-> Or(eventData.component, "System"),
    event_name |-> Or(eventData.event_name, "Unknown Event"),
    ip_address |-> clientIP,
    session_id |-> sessionId ]

\* trackEvent: the record handed to insert
clickstreamEvent(eventData, user, sessionId, clientIP) ==
  [ user_id |-> user,
    component |-> Or(eventData.component, "System"),
    event_name |-> Or(eventData.event_name, "Unknown Event"),
    ip_address |-> IF clientIP # NULL /\ clientIP # UNKNOWN THEN clientIP ELSE NULL,
    session_id |-> sessionId ]


\* ------------------------------------------------------------ trackEvent

\* the part of trackEvent after getClientIP has answered: build the record
\* and issue the insert; a missing descriptor raises inside the try block
AfterIP(call, ip) ==
  IF call.eventData = Undefined
    THEN [call EXCEPT !.pc = "done", !.clientIP = ip,
                      !.result = Fulfilled(NULL, "TypeError")]
    ELSE [call EXCEPT !.pc = "insert", !.clientIP = ip, !.inserts = @ + 1]

InsertIssued(call) == IF call.pc = "insert" THEN 1 ELSE 0

\* `session_${Date.now()}_${random}`: a token no earlier call of the tab produced
FreshId == "session_" \o ToString(requests.storage + 1)

\* trackEvent(eventData) up to its first await
trackEvent(c, eventData) ==
  /\ calls[c].pc = "idle"
  /\ \A b \in CallIds : b < c => calls[b].pc # "idle"
  /\ IF ~ANALYTICS_ENABLED
       THEN /\ calls' = [calls EXCEPT ![c] =
                 [@ EXCEPT !.pc = "done", !.eventData = eventData, !.after = Done,
                           !.result = IF eventData = Undefined
                                        THEN Rejected("TypeError")
                                        ELSE Fulfilled(NULL, NULL)]]
            /\ UNCHANGED requests
       ELSE /\ calls' = [b \in CallIds |->
                 IF b = c
                   THEN [calls[c] EXCEPT !.pc = "auth", !.eventData = eventData,
                                         !.after = Done, !.solo = (InFlight = {})]
                 ELSE IF b \in InFlight THEN [calls[b] EXCEPT !.solo = FALSE]
                 ELSE calls[b]]
            /\ requests' = [requests EXCEPT !.auth = @ + 1]
  /\ UNCHANGED extraVars
  /\ UNCHANGED <<ANALYTICS_ENABLED, slot, cachedIP, clickstream, epoch, resolved, obsVars, pageVars>>

Answer(user) == IF user = NULL THEN "nouser" ELSE "user"

\* supabase.auth.getUser() settles: it throws, reports no user, or a user
AuthReturns(c, user, throws) ==
  /\ calls[c].pc = "auth"
  /\ IF throws
       THEN /\ calls' = [calls EXCEPT ![c] =
                 [@ EXCEPT !.pc = "done", !.authSeen = "throws",
                           !.result = Fulfilled(NULL, "auth failed")]]
            /\ UNCHANGED <<slot, cachedIP, requests, resolved>>
     ELSE IF NoUser(user)
       THEN /\ calls' = [calls EXCEPT ![c] =
                 [@ EXCEPT !.pc = "done", !.authSeen = Answer(user),
                           !.result = Fulfilled(NULL, NoUserError)]]
            /\ UNCHANGED <<slot, cachedIP, requests, resolved>>
     ELSE LET g == generateSessionId(slot, cachedIP, FreshId)
              res == IF g.created THEN FALSE ELSE resolved
              base == [calls[c] EXCEPT !.user = user, !.sessionId = g.id,
                                       !.authSeen = Answer(user),
                                       !.genEpoch = epoch, !.lateStart = res]
          IN /\ slot' = g.slot
             /\ cachedIP' = g.cachedIP
             /\ resolved' = res
             /\ IF CacheMiss(g.cachedIP)
                  THEN /\ calls' = [calls EXCEPT ![c] =
                            [base EXCEPT !.pc = "fetch", !.svc = 1, !.fetches = 1,
                                         !.pass = epoch,
                                         !.contacted = <<services[1]>>]]
                       /\ requests' = [requests EXCEPT !.ip = @ + 1,
                                         !.storage = @ + (IF g.created THEN 1 ELSE 0)]
                  ELSE /\ calls' = [calls EXCEPT ![c] = AfterIP(base, g.cachedIP)]
                       /\ requests' = [requests EXCEPT
                                         !.insert = @ + InsertIssued(AfterIP(base, g.cachedIP)),
                                         !.storage = @ + (IF g.created THEN 1 ELSE 0)]
  /\ UNCHANGED extraVars
  /\ UNCHANGED <<ANALYTICS_ENABLED, clickstream, epoch, obsVars, pageVars>>

\* getClientIP after the loop, with null in place of the sentinel
Exhausted_Null == [cachedIP |-> NULL, returns |-> NULL]

\* getClientIP after the loop: the sentinel is cached and returned
Exhausted == [cachedIP |-> UNKNOWN, returns |-> UNKNOWN]

\* getClientIP: the service just tried gave no IP; the loop moves to the next
\* service, or gives up with the sentinel
NextService(c) ==
  LET missed == [calls[c] EXCEPT !.outcomes = Append(@, "miss")]
  IN IF calls[c].svc < Len(services)
       THEN /\ calls' = [calls EXCEPT ![c] =
                 [missed EXCEPT !.pc = "fetch", !.svc = @ + 1, !.fetches = @ + 1,
                                !.contacted = Append(@, services[calls[c].svc + 1])]]
            /\ requests' = [requests EXCEPT !.ip = @ + 1]
            /\ UNCHANGED <<cachedIP, resolved>>
       ELSE LET after == AfterIP([missed EXCEPT !.wrote = Exhausted.cachedIP],
                                 Exhausted.returns)
            IN /\ cachedIP' = Exhausted.cachedIP
               /\ resolved' = TRUE
               /\ calls' = [calls EXCEPT ![c] = after]
               /\ requests' = [requests EXCEPT !.insert = @ + InsertIssued(after)]

\* fetch(service) settles: a response arrives, or the request fails or is aborted
FetchReturns(c, ok) ==
  /\ calls[c].pc = "fetch"
  /\ IF ok
       THEN /\ calls' = [calls EXCEPT ![c] = [@ EXCEPT !.pc = "json"]]
            /\ UNCHANGED <<cachedIP, requests, resolved>>
       ELSE NextService(c)
  /\ UNCHANGED extraVars
  /\ UNCHANGED <<ANALYTICS_ENABLED, slot, clickstream, epoch, obsVars, pageVars>>

\* response.json() settles
JsonReturns(c, data) ==
  /\ calls[c].pc = "json"
  /\ IF data.json /\ ExtractIP(data) # NULL
       THEN LET ip == ExtractIP(data)
                 after == AfterIP([calls[c] EXCEPT !.outcomes = Append(@, ip),
                                                   !.wrote = ip], ip)
            IN /\ cachedIP' = ip
               /\ resolved' = TRUE
               /\ calls' = [calls EXCEPT ![c] = after]
               /\ requests' = [requests EXCEPT !.insert = @ + InsertIssued(after)]
       ELSE NextService(c)
  /\ UNCHANGED extraVars
  /\ UNCHANGED <<ANALYTICS_ENABLED, slot, clickstream, epoch, obsVars, pageVars>>

\* the insert issued once more after a failure
InsertReturns_Retry(c, outcome) ==
  /\ calls[c].pc = "insert"
  /\ LET call == calls[c]
         row == clickstreamEvent(call.eventData, call.user, call.sessionId, call.clientIP)
     IN IF outcome = "ok"
          THEN /\ clickstream' = clickstream \cup {[id |-> c] @@ row}
               /\ calls' = [calls EXCEPT ![c] =
                    [@ EXCEPT !.pc = "done", !.result = Fulfilled("rows", NULL)]]
          ELSE /\ calls' = [calls EXCEPT ![c] =
                    IF call.inserts < 2
                      THEN [@ EXCEPT !.inserts = @ + 1]
                      ELSE [@ EXCEPT !.pc = "done", !.result = Fulfilled(NULL, "insert failed")]]
               /\ UNCHANGED clickstream
  /\ UNCHANGED extraVars
  /\ UNCHANGED <<ANALYTICS_ENABLED, slot, cachedIP, requests, epoch, resolved, obsVars, pageVars>>

\* the insert settles: the row is stored, the store answers an error, or the
\* request throws
InsertReturns(c, outcome) ==
  /\ calls[c].pc = "insert"
  /\ LET call == calls[c]
         row == clickstreamEvent(call.eventData, call.user, call.sessionId, call.clientIP)
     IN CASE outcome = "ok" ->
               /\ clickstream' = clickstream \cup {[id |-> c] @@ row}
               /\ calls' = [calls EXCEPT ![c] =
                    [@ EXCEPT !.pc = "done", !.result = Fulfilled("rows", NULL)]]
          [] outcome = "error" ->
               /\ calls' = [calls EXCEPT ![c] =
                    [@ EXCEPT !.pc = "done", !.result = Fulfilled(NULL, "insert failed")]]
               /\ UNCHANGED clickstream
          [] outcome = "throws" ->
               /\ calls' = [calls EXCEPT ![c] =
                    [@ EXCEPT !.pc = "done", !.result = Fulfilled(NULL, "network error")]]
               /\ UNCHANGED clickstream
  /\ UNCHANGED extraVars
  /\ UNCHANGED <<ANALYTICS_ENABLED, slot, cachedIP, requests, epoch, resolved, obsVars, pageVars>>

\* the browser empties the tab's session storage: the next event starts a new session
ClearSessionStorage ==
  /\ epoch < MaxClears
  /\ slot # NULL
  /\ slot' = NULL
  /\ epoch' = epoch + 1
  /\ UNCHANGED extraVars
  /\ UNCHANGED <<ANALYTICS_ENABLED, cachedIP, clickstream, calls, requests, resolved, obsVars, pageVars>>

\* ------------------------------ trackEvent, the record it hands to insert

MsPerDay == 24 * 60 * 60 * 1000

\* a Date: the time value days * MsPerDay + ms, kept in two parts
Instants ==
  { [days |-> 19723, ms |-> 84600000],    \* 2024-01-01T23:30:00.000Z
    [days |-> 19782, ms |-> 86399999],    \* 2024-02-29T23:59:59.999Z
    [days |-> 19722, ms |-> 3600000],     \* 2023-12-31T01:00:00.000Z
    [days |-> 11016, ms |-> 0],           \* 2000-02-29T00:00:00.000Z
    [days |-> 20454, ms |-> 43200123],    \* 2026-01-01T12:00:00.123Z
    [days |-> 0, ms |-> 0] }              \* 1970-01-01T00:00:00.000Z

\* values of getTimezoneOffset(), minutes west of UTC
Offsets == {-840, -345, -120, 0, 300, 720}

\* new Date(date.getTime() + delta)
Shift(date, delta) ==
  LET total == date.ms + delta
  IN [days |-> date.days + (total \div MsPerDay), ms |-> total % MsPerDay]

\* the offset added instead of subtracted
LocalTime_Added(date, offsetMinutes) == Shift(date, offsetMinutes * 60000)

\* localTime = new Date(now.getTime() - now.getTimezoneOffset() * 60000)
LocalTime(date, offsetMinutes) == Shift(date, -(offsetMinutes * 60000))

\* year, month and day of a day number (proleptic Gregorian calendar)
CivilFromDays(days) ==
  LET z == days + 719468
      era == z \div 146097
      doe == z - era * 146097
      yoe == (doe - (doe \div 1460) + (doe \div 36524) - (doe \div 146096)) \div 365
      doy == doe - (365 * yoe + (yoe \div 4) - (yoe \div 100))
      mp == (5 * doy + 2) \div 153
      d == doy - ((153 * mp + 2) \div 5) + 1
      m == IF mp < 10 THEN mp + 3 ELSE mp - 9
  IN [year |-> yoe + era * 400 + (IF m <= 2 THEN 1 ELSE 0), month |-> m, day |-> d]

DigitChar(d) == <<"0", "1", "2", "3", "4", "5", "6", "7", "8", "9">>[d + 1]

\* n in decimal, zero-padded to width characters; a text is a sequence of characters
Digits(n, width) == [i \in 1..width |-> DigitChar((n \div (10 ^ (width - i))) % 10)]

\* the fields of a Date read as UTC
Fields(date) ==
  LET c == CivilFromDays(date.days)
  IN [year |-> c.year, month |-> c.month, day |-> c.day,
      hours |-> date.ms \div 3600000, minutes |-> (date.ms \div 60000) % 60,
      seconds |-> (date.ms \div 1000) % 60, millis |-> date.ms % 1000]

\* Date.prototype.toISOString for the years 0000 to 9999
toISOString(date) ==
  LET f == Fields(date)
  IN Digits(f.year, 4) \o <<"-">> \o Digits(f.month, 2) \o <<"-">> \o Digits(f.day, 2)
     \o <<"T">> \o Digits(f.hours, 2) \o <<":">> \o Digits(f.minutes, 2) \o <<":">>
     \o Digits(f.seconds, 2) \o <<".">> \o Digits(f.millis, 3) \o <<"Z">>

\* text.replace(ch, ''): the first occurrence of ch is removed
Replace(text, ch) ==
  IF \E i \in DOMAIN text : text[i] = ch
    THEN LET i == CHOOSE j \in DOMAIN text :
                    text[j] = ch /\ \A k \in 1..(j - 1) : text[k] # ch
         IN SubSeq(text, 1, i - 1) \o SubSeq(text, i + 1, Len(text))
    ELSE text

\* timestamp = localTime.toISOString().replace('Z', '')
Timestamp(date, offsetMinutes) == Replace(toISOString(LocalTime(date, offsetMinutes)), "Z")

\* now.toLocaleString('en-US', {2-digit fields, hour12: false}) in the zone whose
\* offset getTimezoneOffset reports: MM/DD/YYYY, HH:MM:SS
readableTimestamp(date, offsetMinutes) ==
  LET f == Fields(Shift(date, -(offsetMinutes * 60000)))
  IN Digits(f.month, 2) \o <<"/">> \o Digits(f.day, 2) \o <<"/">> \o Digits(f.year, 4)
     \o <<",", " ">> \o Digits(f.hours, 2) \o <<":">> \o Digits(f.minutes, 2) \o <<":">>
     \o Digits(f.seconds, 2)

\* the diagnostic fields with utc_timestamp taken from a second new Date(), one
\* millisecond after the first
Derived_SecondInstant(date, offsetMinutes, documentReferrer) ==
  [ screen_resolution |-> "1920x1080",
    viewport_size |-> "1280x720",
    timezone |-> "Europe/Berlin",
    language |-> "en-US",
    referrer |-> IF documentReferrer = "" THEN NULL ELSE documentReferrer,
    utc_timestamp |-> toISOString(Shift(date, 1)),
    local_timestamp |-> readableTimestamp(date, offsetMinutes),
    timezone_offset |-> offsetMinutes,
    timestamp_local |-> Timestamp(date, offsetMinutes) ]

\* the diagnostic fields trackEvent derives from the browser
Derived(date, offsetMinutes, documentReferrer) ==
  [ screen_resolution |-> "1920x1080",
    viewport_size |-> "1280x720",
    timezone |-> "Europe/Berlin",
    language |-> "en-US",
    referrer |-> IF documentReferrer = "" THEN NULL ELSE documentReferrer,
    utc_timestamp |-> toISOString(date),
    local_timestamp |-> readableTimestamp(date, offsetMinutes),
    timezone_offset |-> offsetMinutes,
    timestamp_local |-> Timestamp(date, offsetMinutes) ]

\* the spread written after the derived fields: the caller's keys win
Spread_CallerLast(caller, derived) ==
  [k \in DOMAIN caller \cup DOMAIN derived |->
     IF k \in DOMAIN caller THEN caller[k] ELSE derived[k]]

\* { ...eventData.additional_data, screen_resolution: ..., ... }
Spread(caller, derived) ==
  [k \in DOMAIN caller \cup DOMAIN derived |->
     IF k \in DOMAIN derived THEN derived[k] ELSE caller[k]]

\* what a caller can pass as additional_data: own keys and keys of derived fields
CallerValues ==
  [ course_title |-> "Intro to SQL", timezone |-> "caller zone", timezone_offset |-> 99999,
    timestamp_local |-> <<"c", "a", "l", "l", "e", "r">> ]

CallerDatas ==
  { [k \in keys |-> CallerValues[k]] : keys \in SUBSET (DOMAIN CallerValues) }

Referrers == {"", "https://example.org/"}

NotBuilt == [done |-> FALSE, time |-> <<>>, additional_data |-> <<>>]

\* trackEvent builds the time and the additional_data of clickstreamEvent
BuildRecord ==
  /\ ~built.done
  /\ built' = [done |-> TRUE, time |-> Timestamp(now, tzOffset),
               additional_data |-> Spread(callerData, Derived(now, tzOffset, referrer))]
  /\ UNCHANGED <<now, tzOffset, referrer, callerData>>
  /\ UNCHANGED <<ANALYTICS_ENABLED, trackVars, obsVars, pageVars, hookVars, moreVars>>

\* ------------------------------------------- useClickstream, page views

NoEvent == [component |-> NULL, event_name |-> NULL, page_path |-> NULL,
            previous_page |-> NULL, from_page |-> NULL, to_page |-> NULL]

\* the descriptor trackPageView hands to trackEvent
trackPageView(path, previous_page) ==
  [NoEvent EXCEPT !.component = "System", !.event_name = "Page viewed",
                  !.page_path = path, !.previous_page = previous_page]

\* the descriptor trackNavigation hands to trackEvent
trackNavigation(fromPage, toPage) ==
  [NoEvent EXCEPT !.component = "Navigation", !.event_name = "Page navigation",
                  !.from_page = fromPage, !.to_page = toPage]

\* the page-view effect without its dependency list and without the comparison
\* with lastPage: it runs after every render and tracks whenever the flag is down
PageViewEffect_EveryRender(first, prevDeps, lastP, hasTracked, currentPath) ==
  LET flag == IF first THEN hasTracked ELSE FALSE
      nav == lastP # NULL /\ lastP # currentPath
  IN IF flag
       THEN [tracked |-> <<>>, lastPage |-> lastP, hasTracked |-> flag, deps |-> currentPath]
       ELSE [tracked |-> <<trackPageView(currentPath, lastP)>>
                           \o (IF nav THEN <<trackNavigation(lastP, currentPath)>> ELSE <<>>),
             lastPage |-> currentPath, hasTracked |-> TRUE, deps |-> currentPath]

\* the page-view effect with its two tracking calls exchanged
PageViewEffect_NavigationFirst(first, prevDeps, lastP, hasTracked, currentPath) ==
  LET runs == first \/ prevDeps # currentPath
      flag == IF first THEN hasTracked ELSE FALSE
      track == lastP # currentPath /\ ~flag
      nav == lastP # NULL /\ lastP # currentPath
  IN IF ~runs
       THEN [tracked |-> <<>>, lastPage |-> lastP, hasTracked |-> hasTracked, deps |-> prevDeps]
     ELSE IF ~track
       THEN [tracked |-> <<>>, lastPage |-> lastP, hasTracked |-> flag, deps |-> currentPath]
     ELSE [tracked |-> (IF nav THEN <<trackNavigation(lastP, currentPath)>> ELSE <<>>)
                         \o <<trackPageView(currentPath, lastP)>>,
           lastPage |-> currentPath, hasTracked |-> TRUE, deps |-> currentPath]

\* the page-view effect with its dependency [window.location.pathname]: whether it
\* runs at this render, the tracking calls it makes and the refs it leaves.  The
\* cleanup of the previous run (hasTrackedCurrentPage := false) precedes the run.
PageViewEffect(first, prevDeps, lastP, hasTracked, currentPath) ==
  LET runs == first \/ prevDeps # currentPath
      flag == IF first THEN hasTracked ELSE FALSE
      track == lastP # currentPath /\ ~flag
      nav == lastP # NULL /\ lastP # currentPath
  IN IF ~runs
       THEN [tracked |-> <<>>, lastPage |-> lastP, hasTracked |-> hasTracked, deps |-> prevDeps]
     ELSE IF ~track
       THEN [tracked |-> <<>>, lastPage |-> lastP, hasTracked |-> flag, deps |-> currentPath]
     ELSE [tracked |-> <<trackPageView(currentPath, lastP)>>
                         \o (IF nav THEN <<trackNavigation(lastP, currentPath)>> ELSE <<>>),
           lastPage |-> currentPath, hasTracked |-> TRUE, deps |-> currentPath]

PageViews(log) == Cardinality({i \in DOMAIN log : log[i].event_name = "Page viewed"})
Navigations(log) == Cardinality({i \in DOMAIN log : log[i].event_name = "Page navigation"})

\* first render of a component that uses the hook: the refs are created, and with
\* tracking enabled the effect runs once
Mount ==
  /\ ~mounted
  /\ mounted' = TRUE
  /\ pathChanges' = 0
  /\ LET e == IF ANALYTICS_ENABLED
                THEN PageViewEffect(TRUE, NULL, pathname, FALSE, pathname)
                ELSE [tracked |-> <<>>, lastPage |-> pathname, hasTracked |-> FALSE,
                      deps |-> NULL]
     IN /\ lastPage' = e.lastPage
        /\ hasTrackedCurrentPage' = e.hasTracked
        /\ deps' = e.deps
        /\ emitted' = e.tracked
        /\ rendered' = [path |-> pathname, views |-> PageViews(e.tracked)]
        /\ lastRender' = [first |-> TRUE, moved |-> FALSE, views |-> PageViews(e.tracked),
                          navs |-> Navigations(e.tracked)]
  /\ UNCHANGED extraVars
  /\ UNCHANGED <<ANALYTICS_ENABLED, pathname, trackVars, pageVars>>

\* a later render of the mounted component
Render ==
  /\ mounted
  /\ LET e == IF ANALYTICS_ENABLED
                THEN PageViewEffect(FALSE, deps, lastPage, hasTrackedCurrentPage, pathname)
                ELSE [tracked |-> <<>>, lastPage |-> lastPage,
                      hasTracked |-> hasTrackedCurrentPage, deps |-> deps]
     IN /\ lastPage' = e.lastPage
        /\ hasTrackedCurrentPage' = e.hasTracked
        /\ deps' = e.deps
        /\ emitted' = emitted \o e.tracked
        /\ rendered' = IF rendered.path = pathname
                         THEN [rendered EXCEPT !.views = @ + PageViews(e.tracked)]
                         ELSE [path |-> pathname, views |-> PageViews(e.tracked)]
        /\ lastRender' = [first |-> FALSE, moved |-> rendered.path # pathname,
                          views |-> PageViews(e.tracked), navs |-> Navigations(e.tracked)]
  /\ UNCHANGED extraVars
  /\ UNCHANGED <<ANALYTICS_ENABLED, pathname, mounted, pathChanges, trackVars, pageVars>>

\* the router moves the mounted page to another path
Navigate(p) ==
  /\ mounted
  /\ p # pathname
  /\ pathChanges < MaxNavs
  /\ pathname' = p
  /\ pathChanges' = pathChanges + 1
  /\ UNCHANGED extraVars
  /\ UNCHANGED <<ANALYTICS_ENABLED, mounted, lastPage, hasTrackedCurrentPage, deps, emitted,
                 rendered, lastRender, trackVars, pageVars>>

\* the component is unmounted: the effect's cleanup runs
Unmount ==
  /\ mounted
  /\ mounted' = FALSE
  /\ hasTrackedCurrentPage' = FALSE
  /\ UNCHANGED extraVars
  /\ UNCHANGED <<ANALYTICS_ENABLED, pathname, lastPage, deps, emitted, rendered, lastRender,
                 pathChanges, trackVars, pageVars>>

\* ------------------------------------------ the pages that use the hook

\* the names of the object useClickstream returns
useClickstream(enabled) ==
  IF ~enabled
    THEN { "trackClick", "trackFormSubmit", "trackVideoProgress", "trackCourseView",
           "trackLessonStart", "trackLessonComplete", "trackQuizStart",
           "trackQuizComplete", "trackSearch", "trackError", "trackLogin", "trackLogout",
           "trackRegistration", "trackEngagement", "track" }
    ELSE { "track", "courseView", "lessonStart", "lessonComplete", "videoEvent",
           "quizEvent", "search", "navigation", "error", "engagement", "trackClick",
           "trackFormSubmit", "trackDownload", "trackLogin", "trackLogout",
           "trackRegistration" }

Components == { "Dashboard", "Login", "MainLayout", "AnalyticsPage", "CoursePage",
                "LessonPage", "QuizComponent" }

\* the names each component destructures from the hook and calls in its handlers
Destructured(component) ==
  CASE component = "Dashboard" -> {"trackCourseView", "trackEngagement"}
    [] component = "Login" -> {"trackFormSubmit", "trackClick"}
    [] component = "MainLayout" -> {"trackNavigation", "trackEngagement"}
    [] component = "AnalyticsPage" -> {"track"}
    [] component = "CoursePage" -> {"trackCourseView", "trackLessonStart"}
    [] component = "LessonPage" -> {"trackLessonStart", "trackLessonComplete", "trackVideoEvent"}
    [] component = "QuizComponent" -> {"trackQuizEvent"}

Courses == {1, 2, 3}

\* course.title of the courses the dashboard lists
Title(course) == "Course " \o ToString(course)

NoEngagement == [component |-> NULL, event_name |-> <<>>,
                 additional_data |-> [course_title |-> NULL]]

\* the descriptor trackEngagement hands to trackEvent; event_name is the
\* template `${elementType} ${action}`, kept as its parts
trackEngagement(elementType, action, elementId, additionalData) ==
  [ component |-> "Interaction",
    event_name |-> <<elementType, action>>,
    additional_data |->
      Spread([element_type |-> elementType, element_id |-> elementId, action |-> action,
              interaction_timestamp |-> toISOString(now)],
             additionalData) ]

IdleEnroll == [pc |-> "idle", course |-> 0, tracking |-> NULL, issued |-> FALSE,
               logged |-> FALSE, refreshed |-> FALSE, event |-> NoEngagement]

MaxQuestions == 10       \* questions of one quiz

NoQuizEvent == [given |-> FALSE, component |-> NULL, event_name |-> <<>>,
                score |-> 0, passed |-> FALSE]

IdleQuiz == [submitted |-> FALSE, correct |-> 0, total |-> 0, score |-> 0,
             outcome |-> NULL, descriptor |-> NoQuizEvent]

\* Math.round((correctAnswers / totalQuestions) * 100): halves round up.  For
\* fewer than 40 questions the double-precision quotient rounds as the exact one.
finalScore(correctAnswers, totalQuestions) ==
  (200 * correctAnswers + totalQuestions) \div (2 * totalQuestions)

\* the descriptor trackQuizEvent hands to trackEvent
trackQuizEvent(action, quizData) ==
  [ given |-> TRUE, component |-> "Quiz", event_name |-> <<"Quiz", action>>,
    score |-> quizData.score, passed |-> quizData.score >= 70 ]

\* what awaiting a tracking function can give its caller: the dummy's undefined, or
\* the {data, error} of trackEvent
TrackingOutcomes(enabled) ==
  IF ~enabled THEN {"undefined"} ELSE {"tracked", "tracking error"}

\* a component that uses the hook is rendered
MountPage(component) ==
  /\ page # component
  /\ page' = component
  /\ api' = useClickstream(ANALYTICS_ENABLED)
  /\ lastUse' = [component |-> NULL, name |-> NULL, outcome |-> NULL]
  /\ enroll' = IdleEnroll
  /\ quiz' = IdleQuiz
  /\ UNCHANGED extraVars
  /\ UNCHANGED <<ANALYTICS_ENABLED, authUser, enrollments, trackVars, obsVars>>

\* the auth context reports a signed-in user, or none
AuthChange(user) ==
  /\ authUser # user
  /\ authUser' = user
  /\ UNCHANGED extraVars
  /\ UNCHANGED <<ANALYTICS_ENABLED, page, api, lastUse, enroll, enrollments, quiz, trackVars, obsVars>>

\* a handler of the mounted component calls one of the names it took from the hook:
\* a name the object does not have is undefined, and calling it raises a TypeError
UseTracker(name) ==
  /\ page # NULL
  /\ name \in Destructured(page)
  /\ lastUse' = [component |-> page, name |-> name,
                 outcome |-> IF name \in api THEN "called" ELSE "TypeError"]
  /\ UNCHANGED extraVars
  /\ UNCHANGED <<ANALYTICS_ENABLED, page, api, authUser, enroll, enrollments, quiz, trackVars, obsVars>>

\* handleEnrollClick(course) up to its await of db.enrollInCourse
handleEnrollClick(course, tracking) ==
  /\ page = "Dashboard"
  /\ enroll.pc # "enrolling"
  /\ IF authUser = NULL
       THEN UNCHANGED <<enroll, enrollments>>
     ELSE IF "trackEngagement" \notin api
       THEN /\ enroll' = [IdleEnroll EXCEPT !.pc = "done", !.course = course,
                                            !.tracking = "TypeError", !.logged = TRUE]
            /\ UNCHANGED enrollments
     ELSE /\ enroll' = [IdleEnroll EXCEPT !.pc = "enrolling", !.course = course,
                                          !.tracking = tracking, !.issued = TRUE,
                                          !.event =
                                             IF ANALYTICS_ENABLED
                                               THEN trackEngagement("button", "clicked",
                                                      "enroll-course-" \o ToString(course),
                                                      [course_title |-> Title(course)])
                                               ELSE NoEngagement]
          /\ enrollments' = enrollments \cup {course}
  /\ UNCHANGED extraVars
  /\ UNCHANGED <<ANALYTICS_ENABLED, page, api, authUser, lastUse, quiz, trackVars, obsVars>>

\* handleSubmit of QuizComponent: the score is computed and shown, then the
\* completion is tracked through the name taken from the hook
handleSubmit(correctAnswers, totalQuestions) ==
  /\ page = "QuizComponent"
  /\ LET score == finalScore(correctAnswers, totalQuestions)
         shown == [IdleQuiz EXCEPT !.submitted = TRUE, !.correct = correctAnswers,
                                   !.total = totalQuestions, !.score = score]
     IN quiz' = IF "trackQuizEvent" \notin api
                  THEN [shown EXCEPT !.outcome = "TypeError"]
                ELSE IF ~ANALYTICS_ENABLED
                  THEN [shown EXCEPT !.outcome = "undefined"]
                ELSE [shown EXCEPT !.outcome = "tracked",
                                   !.descriptor = trackQuizEvent("completed", [score |-> score])]
  /\ UNCHANGED extraVars
  /\ UNCHANGED <<ANALYTICS_ENABLED, page, api, authUser, lastUse, enroll, enrollments, trackVars, obsVars>>

\* db.enrollInCourse settles: its result is ignored and the dashboard reloads, or
\* it throws and the error is logged
EnrollInCourseReturns(throws) ==
  /\ enroll.pc = "enrolling"
  /\ enroll' = IF throws THEN [enroll EXCEPT !.pc = "done", !.logged = TRUE]
                ELSE [enroll EXCEPT !.pc = "done", !.refreshed = TRUE]
  /\ UNCHANGED extraVars
  /\ UNCHANGED <<ANALYTICS_ENABLED, page, api, authUser, lastUse, enrollments, quiz, trackVars, obsVars>>

\* ------------------------- useClickstream, the unload and error effects

MaxClock == 3000         \* milliseconds of page life that are followed
MaxUnmounts == 1         \* unmounts of hook-using components in one page life
MaxErrorEvents == 6      \* error and unhandledrejection events in one page life

\* the components of the route "/" that call useClickstream
HookInstances == {"MainLayout", "Dashboard"}

maxErrors == 5
MinTimeSpent == 2        \* seconds: `if (timeSpent > 2)`
Steps == {500, 1000}     \* how far the clock moves between two events

\* received, tracked and skipped record what the error listeners of the instance
\* have done since it was mounted: events delivered to them, trackError calls made,
\* and events that passed the cap but were not tracked
NoHook == [mounted |-> FALSE, listening |-> FALSE, pageStartTime |-> 0,
           unloadTracked |-> FALSE, errorCount |-> 0,
           received |-> 0, tracked |-> 0, skipped |-> 0]

\* payload: what the event carried; heard: the instances whose listener ran;
\* below: those of them whose counter was below the cap when it ran
NoTrigger == [kind |-> "none", at |-> 0, emitted |-> 0, payload |-> {}, heard |-> 0,
              below |-> 0]

\* Math.round(ms / 1000) for ms >= 0: halves round up
RoundSeconds(ms) == (ms + 500) \div 1000

\* String.prototype.includes, a text being the set of the fragments it holds
Includes(text, fragment) == fragment \in text

\* what the error and unhandledrejection events can carry as message or reason
Messages ==
  { {}, {"boom"}, {"ResizeObserver"}, {"Non-Error promise rejection"},
    {"TypeError"}, {"ReferenceError"} }

\* handleBeforeUnload of one hook instance at time t: the instance afterwards and
\* the number of 'Page unload' descriptors handed to trackEvent
handleBeforeUnload(h, t, beacon) ==
  LET timeSpent == RoundSeconds(t - h.pageStartTime)
  IN IF h.unloadTracked THEN [hook |-> h, emitted |-> 0]
     ELSE IF timeSpent > MinTimeSpent
       THEN [hook |-> [h EXCEPT !.unloadTracked = TRUE],
             emitted |-> IF beacon THEN 1 ELSE 0]
     ELSE [hook |-> h, emitted |-> 0]

\* handleError counting only the errors it tracks
handleError_CountsTracked(h, message) ==
  LET errorMessage == IF message = {} THEN {"Unknown error"} ELSE message
  IN IF h.errorCount >= maxErrors THEN [hook |-> h, emitted |-> 0]
     ELSE IF Includes(errorMessage, "ResizeObserver")
             \/ Includes(errorMessage, "Non-Error promise rejection")
       THEN [hook |-> h, emitted |-> 0]
     ELSE [hook |-> [h EXCEPT !.errorCount = @ + 1], emitted |-> 1]

\* handleError of one hook instance: the instance afterwards and the number of
\* trackError calls ('Error occurred' events)
handleError(h, message) ==
  LET errorMessage == IF message = {} THEN {"Unknown error"} ELSE message
  IN IF h.errorCount >= maxErrors THEN [hook |-> h, emitted |-> 0]
     ELSE [hook |-> [h EXCEPT !.errorCount = @ + 1],
           emitted |-> IF Includes(errorMessage, "ResizeObserver")
                          \/ Includes(errorMessage, "Non-Error promise rejection")
                         THEN 0 ELSE 1]

\* handleUnhandledRejection with the filter of handleError
handleUnhandledRejection_NoiseFilter(h, eventReason) ==
  LET reason == IF eventReason = {} THEN {"Unhandled promise rejection"} ELSE eventReason
  IN IF h.errorCount >= maxErrors THEN [hook |-> h, emitted |-> 0]
     ELSE [hook |-> [h EXCEPT !.errorCount = @ + 1],
           emitted |-> IF Includes(reason, "ResizeObserver")
                          \/ Includes(reason, "Non-Error promise rejection")
                         THEN 0 ELSE 1]

\* handleUnhandledRejection of one hook instance
handleUnhandledRejection(h, eventReason) ==
  LET reason == IF eventReason = {} THEN {"Unhandled promise rejection"} ELSE eventReason
  IN IF h.errorCount >= maxErrors THEN [hook |-> h, emitted |-> 0]
     ELSE [hook |-> [h EXCEPT !.errorCount = @ + 1],
           emitted |-> IF Includes(reason, "TypeError") \/ Includes(reason, "ReferenceError")
                         THEN 1 ELSE 0]

\* the listeners of the instances that registered them, run on one window event
Dispatch(kind, payload) ==
  [i \in HookInstances |->
     IF ~hooks[i].listening THEN [hook |-> hooks[i], emitted |-> 0]
     ELSE CASE kind = "beforeunload" -> handleBeforeUnload(hooks[i], clock, sendBeacon)
            [] kind = "error" -> handleError(hooks[i], payload)
            [] kind = "unhandledrejection" -> handleUnhandledRejection(hooks[i], payload)]

Emitted(r) == Cardinality({i \in HookInstances : r[i].emitted = 1})

\* first render of a component that calls the hook: the refs are created; with
\* tracking enabled the three effects run and the listeners are registered
MountHook(i) ==
  /\ ~hooks[i].mounted
  /\ hooks' = [hooks EXCEPT ![i] =
       [NoHook EXCEPT !.mounted = TRUE, !.listening = ANALYTICS_ENABLED,
                      !.pageStartTime = clock]]
  /\ UNCHANGED <<clock, sendBeacon, lifetime, lastTrigger>>
  /\ UNCHANGED <<ANALYTICS_ENABLED, trackVars, obsVars, pageVars, recordVars, moreVars>>

\* the component is unmounted: the cleanups remove the listeners
UnmountHook(i) ==
  /\ hooks[i].mounted
  /\ lifetime.unmounts < MaxUnmounts
  /\ hooks' = [hooks EXCEPT ![i] = NoHook]
  /\ lifetime' = [lifetime EXCEPT !.unmounts = @ + 1]
  /\ UNCHANGED <<clock, sendBeacon, lastTrigger>>
  /\ UNCHANGED <<ANALYTICS_ENABLED, trackVars, obsVars, pageVars, recordVars, moreVars>>

\* time passes
Tick(d) ==
  /\ clock + d <= MaxClock
  /\ clock' = clock + d
  /\ UNCHANGED <<hooks, sendBeacon, lifetime, lastTrigger>>
  /\ UNCHANGED <<ANALYTICS_ENABLED, trackVars, obsVars, pageVars, recordVars, moreVars>>

\* the path changes and the mounted components render again: the page-view effect
\* of every instance runs and restarts pageStartTime
PathChange ==
  /\ \E i \in HookInstances : hooks[i].listening /\ hooks[i].pageStartTime # clock
  /\ hooks' = [i \in HookInstances |->
                 IF hooks[i].listening THEN [hooks[i] EXCEPT !.pageStartTime = clock]
                 ELSE hooks[i]]
  /\ UNCHANGED <<clock, sendBeacon, lifetime, lastTrigger>>
  /\ UNCHANGED <<ANALYTICS_ENABLED, trackVars, obsVars, pageVars, recordVars, moreVars>>

\* the window fires beforeunload: every registered handleBeforeUnload runs
BeforeUnload ==
  /\ \E i \in HookInstances : hooks[i].mounted
  /\ LET r == Dispatch("beforeunload", {})
     IN /\ hooks' = [i \in HookInstances |-> r[i].hook]
        /\ lifetime' = [lifetime EXCEPT !.unloads = @ + Emitted(r)]
        /\ lastTrigger' = [NoTrigger EXCEPT !.kind = "beforeunload", !.at = clock,
                                            !.emitted = Emitted(r)]
  /\ UNCHANGED <<clock, sendBeacon>>
  /\ UNCHANGED <<ANALYTICS_ENABLED, trackVars, obsVars, pageVars, recordVars, moreVars>>

\* the window fires error or unhandledrejection: every registered handler runs
ErrorEvent(kind, payload) ==
  /\ \E i \in HookInstances : hooks[i].mounted
  /\ lifetime.errorEvents < MaxErrorEvents
  /\ LET r == Dispatch(kind, payload)
         heard == {i \in HookInstances : hooks[i].listening}
         below == {i \in heard : hooks[i].errorCount < maxErrors}
     IN /\ hooks' = [i \in HookInstances |->
              IF i \in heard
                THEN [r[i].hook EXCEPT
                        !.received = @ + 1,
                        !.tracked = @ + r[i].emitted,
                        !.skipped = @ + (IF i \in below /\ r[i].emitted = 0 THEN 1 ELSE 0)]
                ELSE r[i].hook]
        /\ lifetime' = [lifetime EXCEPT !.errors = @ + Emitted(r), !.errorEvents = @ + 1]
        /\ lastTrigger' = [kind |-> kind, at |-> lifetime.errorEvents + 1,
                           emitted |-> Emitted(r), payload |-> payload,
                           heard |-> Cardinality(heard), below |-> Cardinality(below)]
  /\ UNCHANGED <<clock, sendBeacon>>
  /\ UNCHANGED <<ANALYTICS_ENABLED, trackVars, obsVars, pageVars, recordVars, moreVars>>

\* ------------------------ the convenience emitters and their description

\* values of user.id
Actors == {"7f3a", "c41d"}

\* getCurrentUserId(): the text every description template interpolates
getCurrentUserId == "USER_ID"

Emitters ==
  { "trackCourseView", "trackLessonStart", "trackLessonComplete", "trackVideoEvent",
    "trackQuizEvent", "trackSearch", "trackNavigation", "trackError", "trackEngagement" }

\* what the callers interpolate besides the actor: ids, titles, paths, messages
Subjects == {"12", "intro"}

\* the description template of each emitter, a text being the sequence of its parts
description(emitter, a, b, c) ==
  CASE emitter = "trackCourseView" ->
         <<"The user with id '", getCurrentUserId, "' viewed the course with id '", a, "'.">>
    [] emitter = "trackLessonStart" ->
         <<"The user with id '", getCurrentUserId, "' started lesson '", a,
           "' in course '", b, "'.">>
    [] emitter = "trackLessonComplete" ->
         <<"The user with id '", getCurrentUserId, "' completed lesson '", a,
           "' in course '", b, "'.">>
    [] emitter = "trackVideoEvent" ->
         <<"The user with id '", getCurrentUserId, "' ", a, " video: ", b>>
    [] emitter = "trackQuizEvent" ->
         <<"The user with id '", getCurrentUserId, "' ", a, " quiz '", b, "' in course '",
           c, "'.">>
    [] emitter = "trackSearch" ->
         <<"The user with id '", getCurrentUserId, "' searched for: \"", a, "\"">>
    [] emitter = "trackNavigation" ->
         <<"The user with id '", getCurrentUserId, "' navigated from ", a, " to ", b>>
    [] emitter = "trackError" ->
         <<"The user with id '", getCurrentUserId, "' encountered ", a, ": ", b>>
    [] emitter = "trackEngagement" ->
         <<"The user with id '", getCurrentUserId, "' ", a, " ", b, ": ", c>>

NoEmission == [stage |-> "idle", emitter |-> NULL, description |-> <<>>,
               row |-> [user_id |-> NULL, description |-> <<>>]]

\* an emitter is called: it renders its descriptor and hands it to trackEvent
EmitterCalled(emitter, a, b, c) ==
  /\ emission.stage = "idle"
  /\ emission' = [NoEmission EXCEPT !.stage = "called", !.emitter = emitter,
                                    !.description = description(emitter, a, b, c)]
  /\ UNCHANGED <<ANALYTICS_ENABLED, trackVars, obsVars, pageVars, hookVars, recordVars, alive, summary, guard>>

\* trackEvent finishes for that descriptor: with tracking enabled and a user it
\* inserts the row, description: eventData.description || ''
EmissionSettles(user) ==
  /\ emission.stage = "called"
  /\ IF ~ANALYTICS_ENABLED \/ NoUser(user)
       THEN emission' = [emission EXCEPT !.stage = "dropped"]
       ELSE emission' = [emission EXCEPT !.stage = "persisted",
                           !.row = [user_id |-> user,
                                    description |-> IF emission.description # <<>>
                                                      THEN emission.description
                                                      ELSE <<"">>]]
  /\ UNCHANGED <<ANALYTICS_ENABLED, trackVars, obsVars, pageVars, hookVars, recordVars, alive, summary, guard>>

\* ------------------------------------- the unload event and the teardown

\* the descriptor handleBeforeUnload hands to trackEvent
PageUnload == [given |-> TRUE, component |-> "System", event_name |-> "Page unload"]

\* the window fires beforeunload: every registered handleBeforeUnload runs, and each
\* trackEvent call it makes runs up to its first await, supabase.auth.getUser()
BeforeUnloadTracked ==
  /\ alive
  /\ \E i \in HookInstances : hooks[i].mounted
  /\ LET r == Dispatch("beforeunload", {})
         n == Emitted(r)
         idle == {c \in CallIds : calls[c].pc = "idle"}
         taken == {c \in idle : Cardinality({b \in idle : b < c}) < n}
     IN /\ n <= Cardinality(idle)
        /\ hooks' = [i \in HookInstances |-> r[i].hook]
        /\ lifetime' = [lifetime EXCEPT !.unloads = @ + n]
        /\ lastTrigger' = [NoTrigger EXCEPT !.kind = "beforeunload", !.at = clock,
                                            !.emitted = n]
        /\ calls' = [c \in CallIds |->
              IF c \in taken
                THEN [calls[c] EXCEPT !.pc = "auth", !.eventData = PageUnload,
                                      !.after = Done, !.solo = (InFlight = {} /\ n = 1)]
              ELSE IF c \in InFlight /\ n > 0 THEN [calls[c] EXCEPT !.solo = FALSE]
              ELSE calls[c]]
        /\ requests' = [requests EXCEPT !.auth = @ + n]
  /\ UNCHANGED <<clock, sendBeacon, alive, emission, summary, guard>>
  /\ UNCHANGED <<ANALYTICS_ENABLED, slot, cachedIP, clickstream, epoch, resolved, obsVars,
                 pageVars, recordVars>>

\* the browser tears the page down: no continuation of the page runs afterwards
Teardown ==
  /\ alive
  /\ alive' = FALSE
  /\ UNCHANGED <<ANALYTICS_ENABLED, trackVars, obsVars, pageVars, hookVars, recordVars, emission, summary, guard>>

\* ------------------------------------------------------ getEventSummary

\* the characters of a text read as a decimal number
DigitOf(ch) == CHOOSE d \in 0..9 : DigitChar(d) = ch
RECURSIVE NumberOf(_)
NumberOf(text) ==
  IF text = <<>> THEN 0
  ELSE 10 * NumberOf(SubSeq(text, 1, Len(text) - 1)) + DigitOf(text[Len(text)])

\* day number of a calendar date (proleptic Gregorian calendar)
DaysFromCivil(year, month, day) ==
  LET y == IF month <= 2 THEN year - 1 ELSE year
      era == y \div 400
      yoe == y - era * 400
      doy == ((153 * (IF month > 2 THEN month - 3 ELSE month + 9) + 2) \div 5) + day - 1
      doe == yoe * 365 + (yoe \div 4) - (yoe \div 100) + doy
  IN era * 146097 + doe - 719468

\* the instant a text YYYY-MM-DDTHH:MM:SS.mmm names when read as UTC
ParseISO(text) ==
  [ days |-> DaysFromCivil(NumberOf(SubSeq(text, 1, 4)), NumberOf(SubSeq(text, 6, 7)),
                           NumberOf(SubSeq(text, 9, 10))),
    ms |-> NumberOf(SubSeq(text, 12, 13)) * 3600000 + NumberOf(SubSeq(text, 15, 16)) * 60000
           + NumberOf(SubSeq(text, 18, 19)) * 1000 + NumberOf(SubSeq(text, 21, 23)) ]


\* the values of timeRange: the four the switch names and one it does not
TimeRanges == {"1h", "24h", "7d", "30d", "1y"}

\* the length of the window in whole days and milliseconds, as the switch of
\* getEventSummary computes it; any other value is taken as 24 hours
RangeOf(timeRange) ==
  CASE timeRange = "1h" -> [days |-> 0, ms |-> 60 * 60 * 1000]
    [] timeRange = "24h" -> [days |-> 1, ms |-> 0]
    [] timeRange = "7d" -> [days |-> 7, ms |-> 0]
    [] timeRange = "30d" -> [days |-> 30, ms |-> 0]
    [] OTHER -> [days |-> 1, ms |-> 0]

\* startDate = new Date(now.getTime() - range)
StartDate(date, timeRange) ==
  LET r == RangeOf(timeRange)
  IN Shift([days |-> date.days - r.days, ms |-> date.ms], -r.ms)

\* how long after the event the reader asks, in milliseconds
Delays == {0, 400}

\* The bounds are handed to the query builder as Date objects and compared by the
\* store with the TIMESTAMP column time.  What the store takes a bound to be is
\* decided outside this code: the UTC fields of the instant, the wall clock of the
\* client's zone in whole seconds (the text of String(date), zone ignored), or no
\* timestamp at all, in which case the query fails.
Readings == {"utc", "wallclock", "rejected"}

\* a Date bound as the store reads it
Bound(date, offsetMinutes, reading) ==
  IF reading = "utc" THEN date
  ELSE LET local == Shift(date, -(offsetMinutes * 60000))
       IN [days |-> local.days, ms |-> local.ms - (local.ms % 1000)]

\* a <= b for two timestamps
NotAfter(a, b) == a.days < b.days \/ (a.days = b.days /\ a.ms <= b.ms)

\* the row of the event: its user and the timestamp its time text gives the column
StoredUser == "u1"
Readers == {"u1", "u2"}

NoSummary == [asked |-> FALSE, userId |-> NULL, timeRange |-> NULL, delay |-> 0,
              reading |-> NULL, error |-> FALSE, returned |-> FALSE]

\* getEventSummary(userId, timeRange), called delay milliseconds after the event was
\* stored: the rows of userId with startDate <= time <= now, or an error
getEventSummary(userId, timeRange, delay, reading) ==
  /\ built.done
  /\ ~summary.asked
  /\ LET asOf == Shift(now, delay)
         time == ParseISO(built.time)
         inWindow == /\ NotAfter(Bound(StartDate(asOf, timeRange), tzOffset, reading), time)
                     /\ NotAfter(time, Bound(asOf, tzOffset, reading))
     IN summary' = [asked |-> TRUE, userId |-> userId, timeRange |-> timeRange,
                    delay |-> delay, reading |-> reading,
                    error |-> (reading = "rejected"),
                    returned |-> (reading # "rejected" /\ userId = StoredUser /\ inWindow)]
  /\ UNCHANGED <<ANALYTICS_ENABLED, trackVars, obsVars, pageVars, hookVars, recordVars,
                 emission, alive, guard>>

\* ------------------------------------------- AuthProvider, ProtectedRoute

LoginPath == "/login"
AuthOps == {"signUp", "signIn", "signOut"}

NoOutput == [element |-> "none", to |-> NULL, from |-> NULL]

\* ProtectedRoute testing the user before the loading flag
ProtectedRoute_UserFirst(user, loading, location) ==
  IF user # NULL THEN [element |-> "children", to |-> NULL, from |-> NULL]
  ELSE IF loading THEN [element |-> "spinner", to |-> NULL, from |-> NULL]
  ELSE [element |-> "redirect", to |-> LoginPath, from |-> location]

\* what ProtectedRoute returns: the spinner, <Navigate to="/login" state={{from}}>,
\* or its children
ProtectedRoute(user, loading, location) ==
  IF loading THEN [element |-> "spinner", to |-> NULL, from |-> NULL]
  ELSE IF user = NULL THEN [element |-> "redirect", to |-> LoginPath, from |-> location]
  ELSE [element |-> "children", to |-> NULL, from |-> NULL]

\* AuthProvider before it is mounted, with the initial values of its state
NoGuard == [provided |-> FALSE, user |-> NULL, loading |-> TRUE, initial |-> "none",
            ops |-> {}, at |-> NULL, shown |-> NoOutput]

\* React renders again after a state change: on a protected path ProtectedRoute runs
\* with the new state, and a <Navigate> it returns moves the location; on /login it
\* is not rendered
Rendered(g) ==
  IF g.at = LoginPath THEN [g EXCEPT !.shown = NoOutput]
  ELSE LET out == ProtectedRoute(g.user, g.loading, g.at)
       IN [g EXCEPT !.shown = out, !.at = IF out.element = "redirect" THEN out.to ELSE @]

\* the application is rendered at a protected path: AuthProvider's effect starts
\* auth.getCurrentUser() and subscribes to auth changes
MountProvider(p) ==
  /\ ~guard.provided
  /\ guard' = Rendered([NoGuard EXCEPT !.provided = TRUE, !.initial = "pending", !.at = p])
  /\ UNCHANGED <<ANALYTICS_ENABLED, trackVars, obsVars, pageVars, hookVars, recordVars,
                 emission, alive, summary>>

\* auth.getCurrentUser() settles
GetCurrentUserReturns(user, error) ==
  /\ guard.initial = "pending"
  /\ guard' = Rendered([guard EXCEPT !.initial = "done",
                                     !.user = IF user # NULL /\ ~error THEN user ELSE @,
                                     !.loading = FALSE])
  /\ UNCHANGED <<ANALYTICS_ENABLED, trackVars, obsVars, pageVars, hookVars, recordVars,
                 emission, alive, summary>>

\* the callback of auth.onAuthStateChange runs with a session or with none
AuthStateChange(sessionUser) ==
  /\ guard.provided
  /\ guard' = Rendered([guard EXCEPT !.user = sessionUser, !.loading = FALSE])
  /\ UNCHANGED <<ANALYTICS_ENABLED, trackVars, obsVars, pageVars, hookVars, recordVars,
                 emission, alive, summary>>

\* signUp, signIn or signOut is called: setLoading(true), then the request
AuthOpStarts(op) ==
  /\ guard.provided
  /\ op \notin guard.ops
  /\ guard' = Rendered([guard EXCEPT !.ops = @ \cup {op}, !.loading = TRUE])
  /\ UNCHANGED <<ANALYTICS_ENABLED, trackVars, obsVars, pageVars, hookVars, recordVars,
                 emission, alive, summary>>

\* its request settles: the finally block runs setLoading(false)
AuthOpSettles(op) ==
  /\ op \in guard.ops
  /\ guard' = Rendered([guard EXCEPT !.ops = @ \ {op}, !.loading = FALSE])
  /\ UNCHANGED <<ANALYTICS_ENABLED, trackVars, obsVars, pageVars, hookVars, recordVars,
                 emission, alive, summary>>

\* the router moves to a protected path
Visit(p) ==
  /\ guard.provided
  /\ guard.at # p
  /\ guard' = Rendered([guard EXCEPT !.at = p])
  /\ UNCHANGED <<ANALYTICS_ENABLED, trackVars, obsVars, pageVars, hookVars, recordVars,
                 emission, alive, summary>>

\* the tracking module right after it is loaded
InitTrack ==
  /\ slot \in {NULL, StoredId}
  /\ cachedIP = NULL
  /\ clickstream = {}
  /\ calls = [c \in CallIds |-> IdleCall]
  /\ requests = [auth |-> 0, ip |-> 0, insert |-> 0, storage |-> 0]
  /\ epoch = 0
  /\ resolved = FALSE

\* no component using the hook is mounted
InitObserver ==
  /\ pathname \in Paths
  /\ mounted = FALSE
  /\ lastPage = NULL
  /\ hasTrackedCurrentPage = FALSE
  /\ deps = NULL
  /\ emitted = <<>>
  /\ rendered = [path |-> NULL, views |-> 0]
  /\ lastRender = [first |-> FALSE, moved |-> FALSE, views |-> 0, navs |-> 0]
  /\ pathChanges = 0

\* no page is mounted
InitPages ==
  /\ page = NULL
  /\ api = {}
  /\ authUser = NULL
  /\ lastUse = [component |-> NULL, name |-> NULL, outcome |-> NULL]
  /\ enroll = IdleEnroll
  /\ enrollments = {}
  /\ quiz = IdleQuiz

\* the document has just been loaded: no component is mounted yet
InitHooks ==
  /\ clock = 0
  /\ hooks = [i \in HookInstances |-> NoHook]
  /\ sendBeacon = TRUE
  /\ lifetime = [unloads |-> 0, errors |-> 0, unmounts |-> 0, errorEvents |-> 0]
  /\ lastTrigger = NoTrigger

\* no record is being built
InitRecord ==
  /\ now = [days |-> 0, ms |-> 0]
  /\ tzOffset = 0
  /\ referrer = ""
  /\ callerData = <<>>
  /\ built = NotBuilt

\* no emitter has been called
InitMore ==
  /\ emission = NoEmission
  /\ alive = TRUE
  /\ summary = NoSummary
  /\ guard = NoGuard

\* the page is loaded in a tab whose storage slot is empty
Init ==
  /\ ANALYTICS_ENABLED \in BOOLEAN
  /\ InitTrack /\ slot = NULL
  /\ InitObserver /\ pathname = "/course/1"
  /\ InitPages
  /\ InitMore
  /\ InitHooks
  /\ InitRecord

Next ==
  \/ \E c \in CallIds, d \in Descriptors : trackEvent(c, d)
  \/ \E c \in CallIds, u \in Users \cup {NULL}, t \in BOOLEAN : AuthReturns(c, u, t)
  \/ \E c \in CallIds, ok \in BOOLEAN : FetchReturns(c, ok)
  \/ \E c \in CallIds, b \in Bodies : JsonReturns(c, b)
  \/ \E c \in CallIds, o \in {"ok", "error", "throws"} : InsertReturns(c, o)
  \/ ClearSessionStorage

Spec == Init /\ [][Next]_vars

\* the same page load with what the code's timers and the services guarantee: the
\* auth lookup and the insert settle; a fetch settles because the 3000 ms timer set
\* before it aborts it; response.json() runs after clearTimeout and settles only if
\* the service delivers the body, so nothing makes it settle
SpecLookup ==
  /\ Init /\ [][Next]_vars
  /\ \A c \in CallIds :
       /\ WF_vars(\E u \in Users \cup {NULL}, t \in BOOLEAN : AuthReturns(c, u, t))
       /\ WF_vars(\E ok \in BOOLEAN : FetchReturns(c, ok))
       /\ WF_vars(\E o \in {"ok", "error", "throws"} : InsertReturns(c, o))

\* the calls that get as far as generateSessionId, and what can follow them: every
\* call carries a descriptor, the auth lookup answers, the insert is accepted
NextSession ==
  \/ \E c \in CallIds : trackEvent(c, [given |-> TRUE, component |-> NULL, event_name |-> NULL])
  \/ \E c \in CallIds, u \in Users \cup {NULL} : AuthReturns(c, u, FALSE)
  \/ \E c \in CallIds, ok \in BOOLEAN : FetchReturns(c, ok)
  \/ \E c \in CallIds, b \in Bodies : JsonReturns(c, b)
  \/ \E c \in CallIds : InsertReturns(c, "ok")
  \/ ClearSessionStorage

SpecSession == Init /\ [][NextSession]_vars

\* the page is loaded again in a tab that already holds a session identifier
InitReload ==
  /\ ANALYTICS_ENABLED \in BOOLEAN
  /\ InitTrack /\ slot = StoredId
  /\ InitObserver /\ pathname = "/course/1"
  /\ InitPages
  /\ InitMore
  /\ InitHooks
  /\ InitRecord

SpecReload == InitReload /\ [][Next]_vars

InitObs ==
  /\ ANALYTICS_ENABLED \in BOOLEAN
  /\ InitTrack /\ slot = NULL
  /\ InitObserver
  /\ InitPages
  /\ InitMore
  /\ InitHooks
  /\ InitRecord

NextObs ==
  \/ Mount
  \/ Render
  \/ \E p \in Paths : Navigate(p)
  \/ Unmount

SpecObserver == InitObs /\ [][NextObs]_vars

NextPages ==
  \/ \E comp \in Components : MountPage(comp)
  \/ \E u \in Users \cup {NULL} : AuthChange(u)
  \/ \E n \in UNION {Destructured(comp) : comp \in Components} : UseTracker(n)
  \/ \E course \in Courses, t \in TrackingOutcomes(ANALYTICS_ENABLED) :
       handleEnrollClick(course, t)
  \/ \E t \in BOOLEAN : EnrollInCourseReturns(t)
  \/ \E total \in 1..MaxQuestions, correct \in 0..MaxQuestions :
       correct <= total /\ handleSubmit(correct, total)

InitPagesSpec ==
  /\ ANALYTICS_ENABLED \in BOOLEAN
  /\ InitTrack /\ slot = NULL
  /\ InitObserver /\ pathname = "/course/1"
  /\ InitPages
  /\ InitMore
  /\ InitHooks
  /\ InitRecord

SpecPages == InitPagesSpec /\ [][NextPages]_vars

InitUnload ==
  /\ ANALYTICS_ENABLED \in BOOLEAN
  /\ InitTrack /\ slot = NULL
  /\ InitObserver /\ pathname = "/course/1"
  /\ InitPages
  /\ InitMore
  /\ clock = 0
  /\ hooks = [i \in HookInstances |-> NoHook]
  /\ sendBeacon \in BOOLEAN
  /\ lifetime = [unloads |-> 0, errors |-> 0, unmounts |-> 0, errorEvents |-> 0]
  /\ lastTrigger = NoTrigger
  /\ InitRecord

NextUnload ==
  \/ \E i \in HookInstances : MountHook(i)
  \/ \E i \in HookInstances : UnmountHook(i)
  \/ \E d \in Steps : Tick(d)
  \/ PathChange
  \/ BeforeUnload

SpecUnload == InitUnload /\ [][NextUnload]_vars

InitErrors ==
  /\ ANALYTICS_ENABLED \in BOOLEAN
  /\ InitTrack /\ slot = NULL
  /\ InitObserver /\ pathname = "/course/1"
  /\ InitPages
  /\ InitMore
  /\ InitHooks
  /\ InitRecord

NextErrors ==
  \/ \E i \in HookInstances : MountHook(i)
  \/ \E i \in HookInstances : UnmountHook(i)
  \/ \E m \in Messages : ErrorEvent("error", m)
  \/ \E m \in Messages : ErrorEvent("unhandledrejection", m)

SpecErrors == InitErrors /\ [][NextErrors]_vars

\* a call that has passed the flag and user checks, about to build its record
InitBuild ==
  /\ ANALYTICS_ENABLED = TRUE
  /\ InitTrack /\ slot = NULL
  /\ InitObserver /\ pathname = "/course/1"
  /\ InitPages
  /\ InitMore
  /\ InitHooks
  /\ now \in Instants
  /\ tzOffset \in Offsets
  /\ referrer \in Referrers
  /\ callerData \in CallerDatas
  /\ built = NotBuilt

NextRecord == BuildRecord

SpecRecord == InitBuild /\ [][NextRecord]_vars

NextEmit ==
  \/ \E e \in Emitters, a \in Subjects, b \in Subjects, c \in Subjects :
       EmitterCalled(e, a, b, c)
  \/ \E u \in Actors \cup {NULL} : EmissionSettles(u)

SpecEmit == InitPagesSpec /\ [][NextEmit]_vars

\* a page load that ends with beforeunload and the teardown of the page; the
\* awaits of trackEvent settle only while the page is alive
NextTeardown ==
  \/ \E i \in HookInstances : alive /\ MountHook(i)
  \/ \E d \in Steps : alive /\ Tick(d)
  \/ BeforeUnloadTracked
  \/ \E c \in CallIds, u \in Users \cup {NULL}, t \in BOOLEAN : alive /\ AuthReturns(c, u, t)
  \/ \E c \in CallIds, ok \in BOOLEAN : alive /\ FetchReturns(c, ok)
  \/ \E c \in CallIds, b \in Bodies : alive /\ JsonReturns(c, b)
  \/ \E c \in CallIds, o \in {"ok", "error", "throws"} : alive /\ InsertReturns(c, o)
  \/ Teardown

SpecTeardown == InitUnload /\ [][NextTeardown]_vars

\* an event is stored and the analytics reader asks for the events of a user
InitSummary ==
  /\ ANALYTICS_ENABLED = TRUE
  /\ InitTrack /\ slot = NULL
  /\ InitObserver /\ pathname = "/course/1"
  /\ InitPages
  /\ InitMore
  /\ InitHooks
  /\ now \in Instants
  /\ tzOffset \in Offsets
  /\ referrer = ""
  /\ callerData = <<>>
  /\ built = NotBuilt

NextSummary ==
  \/ BuildRecord
  \/ \E u \in Readers, r \in TimeRanges, d \in Delays, g \in Readings :
       getEventSummary(u, r, d, g)

SpecSummary == InitSummary /\ [][NextSummary]_vars

NextGuard ==
  \/ \E p \in Paths : MountProvider(p)
  \/ \E u \in Users \cup {NULL}, e \in BOOLEAN : GetCurrentUserReturns(u, e)
  \/ \E u \in Users \cup {NULL} : AuthStateChange(u)
  \/ \E op \in AuthOps : AuthOpStarts(op)
  \/ \E op \in AuthOps : AuthOpSettles(op)
  \/ \E p \in Paths : Visit(p)

SpecGuard == InitPagesSpec /\ [][NextGuard]_vars

\* ------------------------------------------------------------ properties

Persisted(c) == \E r \in clickstream : r.id = c
Row(c) == CHOOSE r \in clickstream : r.id = c
Started == { c \in CallIds : calls[c].pc # "idle" }

\* C1: with tracking enabled, a call whose auth lookup reports no user has ended
\* with a result whose error is set and whose data is null, and it has issued no
\* insert, obtained no session identifier and started no IP lookup; while no call
\* has seen a user, the table, the slot and the cached IP are untouched and no
\* insert or lookup request is pending or was ever issued.
C1_NoUserNoWrite ==
  /\ \A c \in CallIds :
       (ANALYTICS_ENABLED /\ calls[c].authSeen = "nouser") =>
         /\ calls[c].pc = "done"
         /\ calls[c].result.state = "fulfilled"
         /\ calls[c].result.error # NULL
         /\ calls[c].result.data = NULL
         /\ calls[c].inserts = 0
         /\ ~Persisted(c)
         /\ calls[c].sessionId = NULL
         /\ calls[c].fetches = 0
  /\ (\A c \in Started : calls[c].authSeen \in {"none", "nouser"}) =>
       /\ clickstream = {}
       /\ requests.insert = 0 /\ requests.ip = 0 /\ requests.storage = 0
       /\ cachedIP = NULL

C1_Witness ==
  \E c \in CallIds :
    ANALYTICS_ENABLED /\ calls[c].authSeen = "nouser" /\ calls[c].pc = "done"
    /\ calls[c].eventData.given

\* C2: no trackEvent call ends in a rejected promise.
C2_NeverRejects == \A c \in CallIds : calls[c].result.state # "rejected"

\* C3: every enroll click of an authenticated user issues db.enrollInCourse.
C3_EnrollIssued == enroll.pc # "idle" => enroll.issued

\* C4: with tracking disabled every call returns {data: null, error: null} and
\* no auth lookup, IP lookup, storage write, cache change or insert happens.
C4_DisabledIsNoOp ==
  ~ANALYTICS_ENABLED =>
    /\ \A c \in Started : calls[c].result = Fulfilled(NULL, NULL)
    /\ requests = [auth |-> 0, ip |-> 0, insert |-> 0, storage |-> 0]
    /\ cachedIP = NULL
    /\ clickstream = {}

\* C5: every name a page takes from the hook is in the object the hook returns,
\* in both modes, so that no call of a tracking function raises.
C5_SameNames ==
  /\ page # NULL => Destructured(page) \subseteq api
  /\ lastUse.outcome # "TypeError"

\* C6: a call that obtained its session id in the current session holds the
\* identifier of the storage slot, every stored row carries the id of its call,
\* and two rows written by calls of one session carry the same session_id.
C6_SessionIdStable ==
  /\ \A c \in CallIds : calls[c].genEpoch = epoch => calls[c].sessionId = slot
  /\ \A r \in clickstream : r.session_id = calls[r.id].sessionId
  /\ \A r1, r2 \in clickstream :
       calls[r1.id].genEpoch = calls[r2.id].genEpoch => r1.session_id = r2.session_id

C6_Witness ==
  \E r1, r2 \in clickstream :
    /\ r1.id # r2.id
    /\ calls[r1.id].genEpoch = calls[r2.id].genEpoch
    /\ ~calls[r1.id].solo
    /\ r1.session_id # StoredId

\* C7: in one session at most one resolution pass over the lookup services is
\* started.
C7_OnePassPerSession ==
  \A e \in 0..MaxClears : Cardinality({c \in CallIds : calls[c].pass = e}) <= 1

C9_PageViewDedup ==
  /\ lastRender.views <= 1 /\ lastRender.navs <= 1
  /\ (~lastRender.first /\ ~lastRender.moved) => (lastRender.views = 0 /\ lastRender.navs = 0)
  /\ rendered.views <= 1
  /\ PageViews(emitted) <= pathChanges + 1
  /\ Navigations(emitted) <= pathChanges

C9_Witness ==
  /\ mounted /\ ANALYTICS_ENABLED
  /\ ~lastRender.first /\ ~lastRender.moved
  /\ rendered.views = 1
  /\ PageViews(emitted) = 2

\* C10: while the observer is mounted with tracking enabled, the path it last
\* rendered has exactly one page-view event, the last one emitted.
C10_EveryPathViewed ==
  (mounted /\ ANALYTICS_ENABLED) =>
    /\ rendered.views = 1
    /\ \E i \in DOMAIN emitted :
         /\ emitted[i].event_name = "Page viewed"
         /\ emitted[i].page_path = rendered.path

\* C11: while no hook-using component has been unmounted, at most one 'Page unload'
\* event has been emitted since the document was loaded, and a beforeunload that
\* comes no later than 2 seconds after the load (1 second in particular) emits none.
C11_UnloadAtMostOnce ==
  lifetime.unmounts = 0 =>
    /\ lifetime.unloads <= 1
    /\ (lastTrigger.kind = "beforeunload" /\ lastTrigger.at <= 1000 * MinTimeSpent) =>
         lastTrigger.emitted = 0

\* C12: while no hook-using component has been unmounted, at most 5 'Error
\* occurred' events have been emitted since the document was loaded, and the 6th
\* and later error events emit none.
C12_ErrorCap ==
  lifetime.unmounts = 0 =>
    /\ lifetime.errors <= maxErrors
    /\ (lastTrigger.kind \in {"error", "unhandledrejection"} /\ lastTrigger.at > maxErrors) =>
         lastTrigger.emitted = 0

Shape(text) ==
  /\ Len(text) = 23
  /\ text[5] = "-" /\ text[8] = "-" /\ text[11] = "T" /\ text[14] = ":" /\ text[17] = ":"
  /\ text[20] = "."
  /\ \A i \in (1..23) \ {5, 8, 11, 14, 17, 20} : \E d \in 0..9 : text[i] = DigitChar(d)

\* C13: the time of a built record is an ISO text without 'Z' that, read as UTC,
\* names the instant minus the timezone offset in minutes; with the offset -120
\* the instant 2024-01-01T23:30:00.000Z is stored as 2024-01-02T01:30:00.000.
C13_LocalTimeText ==
  built.done =>
    /\ Shape(built.time)
    /\ \A i \in DOMAIN built.time : built.time[i] # "Z"
    /\ LET t == ParseISO(built.time)
       IN (t.days - now.days) * MsPerDay + (t.ms - now.ms) = -(tzOffset * 60000)
    /\ (now = [days |-> 19723, ms |-> 84600000] /\ tzOffset = -120) =>
         built.time = << "2", "0", "2", "4", "-", "0", "1", "-", "0", "2", "T",
                         "0", "1", ":", "3", "0", ":", "0", "0", ".", "0", "0", "0" >>

C13_Witness ==
  /\ built.done
  /\ now = [days |-> 19723, ms |-> 84600000] /\ tzOffset = -120
  /\ SubSeq(built.time, 9, 13) = <<"0", "2", "T", "0", "1">>

\* C20: the additional_data of a built record has the nine derived fields with
\* the values derived from the browser, whatever the caller passed under those
\* names, and every other key of the caller with the caller's value, and no
\* further key.
C20_DerivedFieldsWin ==
  built.done =>
    LET data == built.additional_data
        derivedKeys == { "screen_resolution", "viewport_size", "timezone", "language",
                         "referrer", "utc_timestamp", "local_timestamp", "timezone_offset",
                         "timestamp_local" }
    IN /\ DOMAIN data = derivedKeys \cup DOMAIN callerData
       /\ data.screen_resolution = "1920x1080"
       /\ data.viewport_size = "1280x720"
       /\ data.timezone = "Europe/Berlin"
       /\ data.language = "en-US"
       /\ data.referrer = (IF referrer = "" THEN NULL ELSE referrer)
       /\ data.utc_timestamp = toISOString(now)
       /\ data.local_timestamp = readableTimestamp(now, tzOffset)
       /\ data.timezone_offset = tzOffset
       /\ data.timestamp_local = built.time
       /\ \A k \in DOMAIN callerData \ derivedKeys : data[k] = callerData[k]

C20_Witness ==
  /\ built.done
  /\ DOMAIN callerData = {"course_title", "timezone", "timezone_offset", "timestamp_local"}
  /\ built.additional_data.course_title = "Intro to SQL"
  /\ built.additional_data.timezone_offset = -120

\* C14: with tracking enabled, an enroll click of a signed-in user has emitted
\* an engagement event with component 'Interaction', an event_name containing
\* 'clicked' and additional_data.course_title equal to the title of the course.
C14_EnrollEmitsEngagement ==
  (ANALYTICS_ENABLED /\ enroll.pc # "idle") =>
    /\ enroll.event.component = "Interaction"
    /\ \E i \in DOMAIN enroll.event.event_name : enroll.event.event_name[i] = "clicked"
    /\ enroll.event.additional_data.course_title = Title(enroll.course)

\* C15: with tracking enabled, a submitted quiz has yielded a quiz-event
\* descriptor whose score is 100 * correct / total rounded to the nearest integer
\* and whose passed flag is true exactly when the score is at least 70; 7 of 10
\* gives score 70 and passed.
C15_QuizDescriptor ==
  (ANALYTICS_ENABLED /\ quiz.submitted) =>
    /\ quiz.descriptor.given
    /\ 2 * quiz.total * quiz.descriptor.score <= 200 * quiz.correct + quiz.total
    /\ 200 * quiz.correct + quiz.total < 2 * quiz.total * (quiz.descriptor.score + 1)
    /\ quiz.descriptor.passed <=> quiz.descriptor.score >= 70
    /\ (quiz.correct = 7 /\ quiz.total = 10) =>
         (quiz.descriptor.score = 70 /\ quiz.descriptor.passed)

\* lookup services that gave this call no IP
Misses(c) ==
  Cardinality({k \in DOMAIN calls[c].outcomes : calls[c].outcomes[k] = "miss"})

\* getClientIP has returned to this call
Returned(c) ==
  calls[c].pc = "insert" \/ (calls[c].pc = "done" /\ calls[c].authSeen = "user")

\* C16: whatever the lookup services do, a call that awaited getClientIP got a
\* string back, the sentinel 'unknown' when all three services gave no IP, and
\* no call that reached the resolver ends in a rejected promise.
C16_ResolverReturnsString ==
  \A c \in CallIds :
    /\ Returned(c) => calls[c].clientIP \in IPs \cup {"unknown"}
    /\ Misses(c) = 3 => (Returned(c) /\ calls[c].clientIP = "unknown")
    /\ calls[c].authSeen = "user" => calls[c].result.state # "rejected"

C16_Witness ==
  \E c \in CallIds :
    /\ Misses(c) = 3 /\ calls[c].clientIP = "unknown" /\ calls[c].pc = "done"
    /\ \E b \in CallIds : Returned(b) /\ Misses(b) = 1 /\ calls[b].clientIP \in IPs

\* C17: a call that was given a descriptor, saw a user and found every lookup
\* service failing has issued its insert and its row, once stored, has ip_address
\* null; a successful insert leaves the row in the table; no stored row has the
\* sentinel 'unknown' as ip_address.
C17_LookupFailureStillInserts ==
  /\ \A c \in CallIds :
       (Misses(c) = 3 /\ calls[c].authSeen = "user" /\ calls[c].eventData.given) =>
         /\ calls[c].inserts = 1
         /\ calls[c].result.error \notin {"TypeError", NoUserError}
         /\ calls[c].result = Fulfilled("rows", NULL) => Persisted(c)
         /\ Persisted(c) => Row(c).ip_address = NULL
  /\ \A r \in clickstream : r.ip_address # "unknown"

C17_Witness ==
  \E c \in CallIds :
    /\ Misses(c) = 3 /\ calls[c].eventData.given
    /\ Persisted(c) /\ Row(c).ip_address = NULL
    /\ calls[c].result = Fulfilled("rows", NULL)

\* C18: the services a call has contacted are a prefix of ipify, ipapi, httpbin;
\* every service before the last contacted one gave no IP; an answer carrying an
\* IP comes from the last contacted service, is what the call got back and what
\* it stored in the cache, and no request follows it.
C18_FixedOrder ==
  \A c \in CallIds :
    LET call == calls[c]
        n == Len(call.contacted)
    IN /\ n <= 3
       /\ call.contacted = SubSeq(<<"ipify", "ipapi", "httpbin">>, 1, n)
       /\ call.fetches = n
       /\ Len(call.outcomes) <= n /\ Len(call.outcomes) >= n - 1
       /\ \A k \in DOMAIN call.outcomes :
            \/ call.outcomes[k] = "miss"
            \/ /\ k = n
               /\ call.outcomes[k] \in IPs
               /\ call.clientIP = call.outcomes[k]
               /\ call.wrote = call.outcomes[k]
               /\ call.pc \in {"insert", "done"}

C18_Witness ==
  \E c \in CallIds :
    /\ calls[c].contacted = <<"ipify", "ipapi">>
    /\ calls[c].outcomes[1] = "miss" /\ Len(calls[c].outcomes) = 2
    /\ calls[c].outcomes[2] \in IPs
    /\ calls[c].pc = "done"

\* C19 as stated: a finished call that passed the flag and user checks has made
\* exactly one insert attempt; insert attempts never outnumber the calls made;
\* every row acknowledged to a caller is in the table as it was inserted.
C19_ExactlyOneInsert ==
  /\ \A c \in CallIds :
       (calls[c].pc = "done" /\ calls[c].authSeen = "user") => calls[c].inserts = 1
  /\ requests.insert <= Cardinality(Started)
  /\ \A c \in CallIds : calls[c].result = Fulfilled("rows", NULL) => Persisted(c)

\* C19 as amended: a call makes at most one insert attempt; a finished call that
\* passed the flag and user checks has made exactly one if it was given a
\* descriptor and none if it was not; a failed insert is not repeated; insert
\* attempts never outnumber the calls made; every row acknowledged to a caller is
\* in the table, one row per call, as it was inserted.
C19_AtMostOneInsert ==
  /\ \A c \in CallIds :
       /\ calls[c].inserts <= 1
       /\ (calls[c].pc = "done" /\ calls[c].authSeen = "user") =>
            calls[c].inserts = (IF calls[c].eventData.given THEN 1 ELSE 0)
       /\ calls[c].result = Fulfilled("rows", NULL) <=> Persisted(c)
  /\ requests.insert <= Cardinality(Started)
  /\ Cardinality(clickstream) <= requests.insert
  /\ \A r \in clickstream :
       /\ \A q \in clickstream : q.id = r.id => q = r
       /\ r.user_id = calls[r.id].user
       /\ r.session_id = calls[r.id].sessionId
       /\ r.component = Or(calls[r.id].eventData.component, "System")

C19_Witness ==
  \E a, b \in CallIds :
    /\ calls[a].pc = "done" /\ calls[a].result = Fulfilled(NULL, "insert failed")
    /\ calls[a].inserts = 1 /\ ~Persisted(a)
    /\ calls[b].pc = "done" /\ Persisted(b)
    /\ requests.insert = 2

\* a text holds the fragment as one of its parts
Contains(text, fragment) == \E i \in DOMAIN text : text[i] = fragment

\* C21: the description of every row persisted through a convenience emitter holds
\* the id of the user who triggered it and no unsubstituted placeholder.
C21_DescriptionNamesActor ==
  emission.stage = "persisted" =>
    /\ Contains(emission.row.description, emission.row.user_id)
    /\ ~Contains(emission.row.description, "USER_ID")

\* C22: in the tracking calls of one observer instance, every navigation call comes
\* right after the page-view call of the same transition: the page view of the
\* path moved to, naming the path moved from as previous_page.
C22_PageViewBeforeNavigation ==
  \A i \in DOMAIN emitted :
    emitted[i].event_name = "Page navigation" =>
      /\ i > 1
      /\ emitted[i - 1].event_name = "Page viewed"
      /\ emitted[i - 1].page_path = emitted[i].to_page
      /\ emitted[i - 1].previous_page = emitted[i].from_page

\* an instance has lived through two path changes and tracked both
C22_Witness ==
  /\ mounted /\ pathChanges >= 2
  /\ Navigations(emitted) >= 2
  /\ emitted[Len(emitted)].event_name = "Page navigation"
  /\ emitted[Len(emitted)].to_page = pathname

\* C23: once beforeunload has emitted an unload event and the page has been torn
\* down, every unload event has at least been handed to the network as an insert
\* request or is in the store.
C23_UnloadSurvivesTeardown ==
  ~alive =>
    \A c \in CallIds :
      calls[c].eventData = PageUnload => (calls[c].inserts >= 1 \/ Persisted(c))

\* C24: a step in which a call runs generateSessionId stores a new identifier and
\* clears the cached IP when the slot is empty, and otherwise returns the stored
\* identifier and leaves the slot and the cached IP as they are; no other step
\* puts an identifier into the slot.
C24_SessionIdFrame ==
  [][ /\ \A c \in CallIds :
           (calls[c].pc = "auth" /\ calls'[c].authSeen = "user") =>
             IF slot = NULL
               THEN /\ slot' # NULL /\ slot' # StoredId
                    /\ calls'[c].sessionId = slot'
                    /\ cachedIP' = NULL
                    /\ requests'.storage = requests.storage + 1
               ELSE /\ calls'[c].sessionId = slot
                    /\ slot' = slot
                    /\ cachedIP' = cachedIP
                    /\ requests'.storage = requests.storage
      /\ (slot' # slot /\ slot' # NULL) =>
           \E c \in CallIds : calls[c].pc = "auth" /\ calls'[c].authSeen = "user"
    ]_vars

\* one call created the identifier and a later call of the session found it, with
\* an IP in the cache that it went on to use
C24_Witness ==
  \E a, b \in CallIds :
    /\ a \in calls[b].after /\ calls[a].genEpoch = 0 /\ calls[b].genEpoch = 0
    /\ calls[a].sessionId # NULL /\ calls[b].sessionId = calls[a].sessionId
    /\ calls[b].lateStart /\ calls[b].clientIP \in IPs /\ calls[b].fetches = 0

\* C25: a call that is inside a lookup attempt, waiting for the answer or for the
\* body, eventually gets out of getClientIP.
C25_LookupCompletes ==
  \A c \in CallIds :
    (calls[c].pc \in {"fetch", "json"}) ~> (calls[c].pc \in {"insert", "done"})

\* the known-noisy categories the claim names
Noisy(payload) ==
  Includes(payload, "ResizeObserver") \/ Includes(payload, "Non-Error promise rejection")

\* C26 as stated: an error or rejection event that is one of the first 5 of the page
\* lifetime, is heard by an observer and is not in a noisy category is emitted as
\* an 'Error occurred' event.
C26_EveryErrorEmitted ==
  ( /\ lastTrigger.kind \in {"error", "unhandledrejection"}
    /\ lastTrigger.heard >= 1
    /\ lastTrigger.at <= maxErrors
    /\ ~Noisy(lastTrigger.payload) ) =>
    lastTrigger.emitted >= 1

\* C26 amended: every instance whose counter is below 5 emits an uncaught error
\* unless its message is noisy, and emits an unhandled rejection only if its
\* reason names TypeError or ReferenceError; no other instance emits anything.
C26_ErrorsAndSeriousRejections ==
  lastTrigger.kind \in {"error", "unhandledrejection"} =>
    lastTrigger.emitted =
      IF \/ lastTrigger.kind = "error" /\ ~Noisy(lastTrigger.payload)
         \/ /\ lastTrigger.kind = "unhandledrejection"
            /\ \/ Includes(lastTrigger.payload, "TypeError")
               \/ Includes(lastTrigger.payload, "ReferenceError")
        THEN lastTrigger.below
        ELSE 0

\* a rejection naming a TypeError has been emitted after an ordinary rejection was not
C26_Witness ==
  /\ lastTrigger.kind = "unhandledrejection"
  /\ Includes(lastTrigger.payload, "TypeError")
  /\ lastTrigger.emitted >= 1
  /\ \E i \in HookInstances : hooks[i].listening /\ hooks[i].skipped >= 1 /\ hooks[i].tracked = 1

\* C27: in every observer instance the counter is the number of events its
\* listeners received, up to 5, whichever of the two events they were and whether
\* or not the filter let them through: tracked and skipped events together are
\* the counter and never exceed 5.
C27_SharedCounter ==
  \A i \in HookInstances :
    hooks[i].listening =>
      /\ hooks[i].errorCount = (IF hooks[i].received < maxErrors THEN hooks[i].received
                                ELSE maxErrors)
      /\ hooks[i].tracked + hooks[i].skipped = hooks[i].errorCount
      /\ hooks[i].tracked + hooks[i].skipped <= maxErrors

\* an instance has received a sixth event after tracking some and skipping others,
\* of both kinds
C27_Witness ==
  \E i \in HookInstances :
    /\ hooks[i].listening /\ hooks[i].received > maxErrors
    /\ hooks[i].tracked >= 1 /\ hooks[i].skipped >= 1
    /\ lastTrigger.kind = "unhandledrejection" /\ lastTrigger.heard >= 1
    /\ lastTrigger.emitted = 0 /\ Includes(lastTrigger.payload, "TypeError")

\* C28: in a built record time and additional_data.timestamp_local are the same
\* text, and read as UTC it names the instant of additional_data.utc_timestamp
\* moved back by additional_data.timezone_offset minutes.
C28_TimeFieldsAgree ==
  built.done =>
    LET data == built.additional_data
        utc == ParseISO(Replace(data.utc_timestamp, "Z"))
    IN /\ built.time = data.timestamp_local
       /\ Shape(built.time)
       /\ data.utc_timestamp[Len(data.utc_timestamp)] = "Z"
       /\ ParseISO(built.time) = Shift(utc, -(data.timezone_offset * 60000))

\* a record built east of UTC late on a leap day, from a caller that passed its own
\* timestamp_local and timezone_offset: the local date is the next day
C28_Witness ==
  /\ built.done
  /\ now = [days |-> 19782, ms |-> 86399999] /\ tzOffset = -345
  /\ "timezone_offset" \in DOMAIN callerData /\ "timestamp_local" \in DOMAIN callerData
  /\ SubSeq(built.time, 1, 10) = <<"2", "0", "2", "4", "-", "0", "3", "-", "0", "1">>
  /\ SubSeq(built.additional_data.utc_timestamp, 1, 10)
       = <<"2", "0", "2", "4", "-", "0", "2", "-", "2", "9">>

\* C29: an event stored for a user is returned by getEventSummary for that user,
\* called right after the event, for each of the ranges '1h', '24h', '7d', '30d'
\* and every timezone offset.
C29_RoundTrip ==
  ( /\ summary.asked
    /\ summary.userId = StoredUser
    /\ summary.timeRange \in {"1h", "24h", "7d", "30d"} ) =>
    summary.returned

\* C30: ProtectedRoute has returned its children only if the auth state is not
\* loading and holds a user; on a protected path it shows the spinner while the
\* state is loading; and with no user and no loading it has sent the visitor to
\* /login, remembering the path asked for.
C30_GuardedContent ==
  /\ guard.shown.element = "children" =>
       (~guard.loading /\ guard.user # NULL /\ guard.at \in Paths)
  /\ (guard.at \in Paths /\ guard.loading) => guard.shown.element = "spinner"
  /\ (guard.at \in Paths /\ ~guard.loading) =>
       (guard.user # NULL /\ guard.shown.element = "children")
  /\ guard.shown.element = "redirect" =>
       /\ ~guard.loading /\ guard.user = NULL
       /\ guard.shown.to = LoginPath /\ guard.at = LoginPath
       /\ guard.shown.from \in Paths

\* a signed-in visitor on a protected path while a sign-out is in flight
C30_Witness ==
  /\ guard.at \in Paths /\ guard.user # NULL /\ guard.loading
  /\ "signOut" \in guard.ops /\ guard.initial = "done"
  /\ guard.shown.element = "spinner"

====
